---- MODULE Spec2Model ----
(***************************************************************************)
(* Model of ai_speed_camera/_annotations_processor.py: the pipeline that   *)
(* turns the object annotations of a video into per-car frame mappings,    *)
(* speeds and a list of valid cars (_extract_cars and what it calls).      *)
(*                                                                         *)
(* Numbers.  Python floats are modelled by exact arithmetic:               *)
(*   - a box coordinate is an integer count of 1/CoordDen of the frame;    *)
(*   - seconds, metres and metres per second are fractions <<num, den>>;   *)
(*   - car_speed, which the code rounds to 2 decimals, is an integer       *)
(*     count of hundredths of km/h.                                        *)
(* A Python value that may be None is a set: {} for None, {v} for v.       *)
(* A time offset text is the sequence of its characters.                   *)
(***************************************************************************)
EXTENDS Integers, Sequences, FiniteSets, TLC

VARIABLES
    annotations_response, \* objectAnnotations of the document: a sequence of entities
    frame_rate,           \* argument of _extract_cars
    distance,             \* argument of _extract_cars (metres)
    min_speed,            \* argument of _extract_cars (km/h)
    min_rdt,              \* argument of _extract_cars (1/CoordDen of the frame)
    pc,                   \* "start", "parse", "done" or "raised"
    cars,                 \* _extract_cars: the entities that passed _is_car
    cars_frame_boxes_lookup, \* _extract_cars: the trajectories built so far
    all_frame_boxes,      \* _parse_annotation: the dense sequence of the car parsed last
    valid_cars,           \* the value _extract_cars returns
    error                 \* the exception that ended the run, or "none"

vars == <<annotations_response, frame_rate, distance, min_speed, min_rdt, pc, cars,
          cars_frame_boxes_lookup, all_frame_boxes, valid_cars, error>>

(***************************************************************************)
(* Bounds and input sets                                                   *)
(***************************************************************************)
\* Raw samples of the car of a one-car document.
MaxSamples == 3
\* Entities of a document of several entities.
MaxEntities == 3

FrameRates == {1, 2}
Distances == {100}
MinSpeeds == {0, 1}

\* Time offset texts: "0s", "1.5s", "2s" and ".5s" (which starts with no digit).
TimeOffsets == { <<"0", "s">>, <<"1", ".", "5", "s">>, <<"2", "s">>, <<".", "5", "s">> }

Descriptions == {"car", "truck"}

Max(S) == CHOOSE x \in S : \A y \in S : y <= x

RECURSIVE Gcd(_, _)
Gcd(a, b) == IF b = 0 THEN a ELSE Gcd(b, a % b)

RECURSIVE LcmUpTo(_)
LcmUpTo(n) == IF n <= 1 THEN 1 ELSE LET l == LcmUpTo(n - 1) IN (l * n) \div Gcd(l, n)

Abs(x) == IF x < 0 THEN 0 - x ELSE x

(***************************************************************************)
(* Optional values and fractions                                           *)
(***************************************************************************)
None == {}
Some(v) == {v}
Get(o) == CHOOSE v \in o : TRUE

\* The fraction a/b - c/d, a/b * c/d, (a/b) / (c/d): denominators stay positive.
FracSub(x, y) == <<x[1] * y[2] - y[1] * x[2], x[2] * y[2]>>
FracMul(x, y) == <<x[1] * y[1], x[2] * y[2]>>
FracDiv(x, y) == <<x[1] * y[2], x[2] * y[1]>>

\* round(): the nearest integer to n/d (n >= 0, d > 0), a tie to the even one.
RoundHalfEven(n, d) ==
    LET q == n \div d
        r == n % d
    IN IF 2 * r < d THEN q
       ELSE IF 2 * r > d THEN q + 1
       ELSE IF q % 2 = 0 THEN q ELSE q + 1

(***************************************************************************)
(* Time/unit utilities                                                     *)
(***************************************************************************)
Digits == {"0", "1", "2", "3", "4", "5", "6", "7", "8", "9"}

DigitValue(c) ==
    CASE c = "0" -> 0 [] c = "1" -> 1 [] c = "2" -> 2 [] c = "3" -> 3 [] c = "4" -> 4
      [] c = "5" -> 5 [] c = "6" -> 6 [] c = "7" -> 7 [] c = "8" -> 8 [] c = "9" -> 9

\* The length of the longest run of digits of s that starts at position i.
RECURSIVE DigitRun(_, _)
DigitRun(s, i) ==
    IF i <= Len(s) /\ s[i] \in Digits THEN 1 + DigitRun(s, i + 1) ELSE 0

\* seconds.match(time) for seconds = \d+(\.\d+)? : the matched text, or None.
_time_to_seconds(time) ==
    LET n == DigitRun(time, 1)
        f == IF n + 1 <= Len(time) /\ time[n + 1] = "." THEN DigitRun(time, n + 2) ELSE 0
    IN IF n = 0 THEN None
       ELSE Some(SubSeq(time, 1, IF f > 0 THEN n + 1 + f ELSE n))

\* The number a sequence of digits writes.
RECURSIVE IntOfDigits(_)
IntOfDigits(s) ==
    IF s = <<>> THEN 0
    ELSE IntOfDigits(SubSeq(s, 1, Len(s) - 1)) * 10 + DigitValue(s[Len(s)])

RECURSIVE Pow10(_)
Pow10(n) == IF n = 0 THEN 1 ELSE 10 * Pow10(n - 1)

\* float(text) of a matched text (digits, or digits "." digits), as a fraction.
FloatOf(text) ==
    IF \E i \in 1..Len(text) : text[i] = "."
    THEN LET p == CHOOSE i \in 1..Len(text) : text[i] = "."
             frac == SubSeq(text, p + 1, Len(text))
         IN <<IntOfDigits(SubSeq(text, 1, p - 1)) * Pow10(Len(frac)) + IntOfDigits(frac),
              Pow10(Len(frac))>>
    ELSE <<IntOfDigits(text), 1>>

\* int(seconds * frame_rate): truncation of a non-negative number.
_seconds_to_frame_number(seconds, fr) == (seconds[1] * fr) \div seconds[2]

_frame_number_to_seconds(frame_number, fr) == <<frame_number, fr>>

\* round(mps * 3.6, 2), in hundredths of km/h.
_mps_to_khm(mps) ==
    LET kmh == FracMul(mps, <<36, 10>>)
    IN RoundHalfEven(kmh[1] * 100, kmh[2])

(***************************************************************************)
(* Coordinates                                                             *)
(***************************************************************************)
\* The largest frame number an input sample can have.
MaxFrameNumber ==
    Max({ _seconds_to_frame_number(FloatOf(Get(_time_to_seconds(t))), fr) :
            t \in {u \in TimeOffsets : _time_to_seconds(u) # None}, fr \in FrameRates })

\* One tenth of the frame, in coordinate units: every division of linspace and
\* every midpoint of two input coordinates is exact.
Tenth == 2 * LcmUpTo(MaxFrameNumber)
CoordDen == 10 * Tenth

Fields == {"left", "top", "right", "bottom"}

default_bb == [left |-> 0, right |-> 0, top |-> 0, bottom |-> 0]

\* normalizedBoundingBox values of the input: {right 0.1, bottom 0.1} (left and top
\* absent) and {left 0.9, top 0.4, right 1.0, bottom 0.5}.
BoxA == [f \in {"right", "bottom"} |-> Tenth]
BoxB == [left |-> 9 * Tenth, top |-> 4 * Tenth, right |-> 10 * Tenth, bottom |-> 5 * Tenth]
BoxInputs == {BoxA, BoxB}

MinDistances == {0, 9 * Tenth}

Samples == [timeOffset : TimeOffsets, normalizedBoundingBox : BoxInputs]

Sample(t, b) == [timeOffset |-> t, normalizedBoundingBox |-> b]
Entity(d, fs) == [entity |-> [description |-> d], frames |-> fs]

\* Documents of one car: every list of at most MaxSamples raw samples.
CarDocuments ==
    { <<Entity("car", fs)>> : fs \in UNION { [1..k -> Samples] : k \in 0..MaxSamples } }

\* The frames of an entity of a document of several entities: none, one sample,
\* a move across the frame, an unparseable offset.
EntityFrames ==
    { <<>>,
      <<Sample(<<"0", "s">>, BoxA)>>,
      <<Sample(<<"0", "s">>, BoxA), Sample(<<"2", "s">>, BoxB)>>,
      <<Sample(<<".", "5", "s">>, BoxA)>> }

EntityDocuments ==
    UNION { [1..n -> { Entity(d, fs) : d \in Descriptions, fs \in EntityFrames }] :
            n \in 0..MaxEntities }

Documents == CarDocuments \cup EntityDocuments

(***************************************************************************)
(* Geometry utilities                                                      *)
(***************************************************************************)
_line_midpoint(start, end) == (start + end) \div 2

_bb_centroid(bb) ==
    <<_line_midpoint(bb["left"], bb["right"]), _line_midpoint(bb["top"], bb["bottom"])>>

\* math.sqrt of a perfect square.
Sqrt(n) == CHOOSE r \in 0..(2 * CoordDen) : r * r = n

_abs_distance(x1, x2) == Sqrt((x2 - x1) * (x2 - x1))

\* _is_car without the comparison: every entity counts as a car.
_is_car_any(oa) == oa["entity"]["description"] \in Descriptions

_is_car(oa) == oa["entity"]["description"] = "car"

(***************************************************************************)
(* Frame interpolator                                                      *)
(***************************************************************************)
\* A frame box is the tuple <<frame number, bounding box>>, each None or a value.
_frame_to_box_lookup(frame, fr) ==
    LET m == _time_to_seconds(frame["timeOffset"])
    IN IF m # None
       THEN LET seconds == FloatOf(Get(m))
                frame_number == _seconds_to_frame_number(seconds, fr)
                bounding_box ==
                    [f \in Fields |->
                        IF f \in DOMAIN frame["normalizedBoundingBox"]
                        THEN frame["normalizedBoundingBox"][f]
                        ELSE default_bb[f]]
            IN <<Some(frame_number), Some(bounding_box)>>
       ELSE <<None, None>>

_to_bb(left, top, right, bottom) ==
    [left |-> left, top |-> top, right |-> right, bottom |-> bottom]

\* numpy.linspace(start, stop, num=num, endpoint=False) for num >= 0:
\* step = (stop - start) / num, y[k] = k * step + start for k = 0 .. num - 1.
linspace(start, stop, num) ==
    [k \in 1..num |-> (k - 1) * ((stop - start) \div num) + start]

\* a[1:]
DropFirst(a) == IF a = <<>> THEN <<>> ELSE Tail(a)

\* _generate_bounding_boxes without the [1:] slice: the start box is generated again.
_generate_bounding_boxes_keepfirst(start_bb, end_bb, steps) ==
    LET step_coords(coord) == linspace(start_bb[coord], end_bb[coord], steps)
    IN [k \in 1..Len(step_coords("left")) |->
            _to_bb(step_coords("left")[k], step_coords("top")[k],
                   step_coords("right")[k], step_coords("bottom")[k])]

_generate_bounding_boxes(start_bb, end_bb, steps) ==
    LET step_coords(coord) == DropFirst(linspace(start_bb[coord], end_bb[coord], steps))
    IN [k \in 1..Len(step_coords("left")) |->
            _to_bb(step_coords("left")[k], step_coords("top")[k],
                   step_coords("right")[k], step_coords("bottom")[k])]

\* What the body of the loop of _add_missing_frames raises for one pair: the
\* subtraction of a None index is a TypeError, and numpy.linspace raises a
\* ValueError for a negative num.
PairRaises(start, end) ==
    IF start[1] = None \/ end[1] = None THEN "TypeError"
    ELSE IF Get(end[1]) - Get(start[1]) < 0 THEN "ValueError"
    ELSE "none"

\* The loop body without all_frames.append(end): a pair appends its start and the
\* frames it generates only.
PairFrames_noend(start, end) ==
    LET start_index == Get(start[1])
        steps == Get(end[1]) - start_index
        missing_bbs == _generate_bounding_boxes(Get(start[2]), Get(end[2]), steps)
    IN <<start>> \o
       [k \in 1..Len(missing_bbs) |-> <<Some(start_index + k), Some(missing_bbs[k])>>]

\* What the loop appends to all_frames for one pair.
PairFrames(start, end) ==
    LET start_index == Get(start[1])
        end_index == Get(end[1])
        steps == end_index - start_index
        missing_bbs == _generate_bounding_boxes(Get(start[2]), Get(end[2]), steps)
        missing_frames ==
            [k \in 1..Len(missing_bbs) |-> <<Some(start_index + k), Some(missing_bbs[k])>>]
    IN <<start>> \o missing_frames \o <<end>>

\* The exception _add_missing_frames raises: that of its first failing pair.
RECURSIVE AddMissingFramesRaises(_, _)
AddMissingFramesRaises(frames, k) ==
    IF k >= Len(frames) THEN "none"
    ELSE IF PairRaises(frames[k], frames[k + 1]) # "none"
         THEN PairRaises(frames[k], frames[k + 1])
         ELSE AddMissingFramesRaises(frames, k + 1)

RECURSIVE AllFramesFrom(_, _)
AllFramesFrom(frames, k) ==
    IF k >= Len(frames) THEN <<>>
    ELSE PairFrames(frames[k], frames[k + 1]) \o AllFramesFrom(frames, k + 1)

_add_missing_frames(frames) == AllFramesFrom(frames, 1)

(***************************************************************************)
(* Trajectory builder and speed estimator                                  *)
(***************************************************************************)
\* lookup[frame_number] = bounding_box
_merge_lookups(lookup, frame_box) ==
    [k \in DOMAIN lookup \cup {Get(frame_box[1])} |->
        IF k = Get(frame_box[1]) THEN Get(frame_box[2]) ELSE lookup[k]]

\* functools.reduce(_merge_lookups, all_frames, {}) from position k on.
RECURSIVE Reduce_merge_lookups(_, _, _)
Reduce_merge_lookups(lookup, all_frames, k) ==
    IF k > Len(all_frames) THEN lookup
    ELSE Reduce_merge_lookups(_merge_lookups(lookup, all_frames[k]), all_frames, k + 1)

\* _relative_distance_traveled over the distance of the centroids on both axes.
_relative_distance_traveled_vertical(bb_start, bb_end) ==
    LET start_centroid == _bb_centroid(bb_start)
        end_centroid == _bb_centroid(bb_end)
    IN _abs_distance(start_centroid[1], end_centroid[1])
         + _abs_distance(start_centroid[2], end_centroid[2])

_relative_distance_traveled(bb_start, bb_end) ==
    LET start_centroid == _bb_centroid(bb_start)
        end_centroid == _bb_centroid(bb_end)
    IN _abs_distance(start_centroid[1], end_centroid[1])

_calculate_speed(frames, fr, dist) ==
    LET start == frames[1]
        end == frames[Len(frames)]
        rdt == _relative_distance_traveled(Get(start[2]), Get(end[2]))
        actual_distance_traveled == <<dist * rdt, CoordDen>>
        time == FracSub(_frame_number_to_seconds(Get(end[1]), fr),
                        _frame_number_to_seconds(Get(start[1]), fr))
    IN IF time[1] > 0 THEN _mps_to_khm(FracDiv(actual_distance_traveled, time)) ELSE 0

FrameBoxes(annotation, fr) ==
    [k \in 1..Len(annotation["frames"]) |-> _frame_to_box_lookup(annotation["frames"][k], fr)]

\* The exception _parse_annotation raises, or "none": that of _add_missing_frames,
\* else the IndexError of frames[0] on an empty list, else the TypeError of
\* _bb_centroid(None) when the first or the last frame box is (None, None).
ParseAnnotationRaises(annotation, fr) ==
    LET frame_boxes == FrameBoxes(annotation, fr)
    IN IF AddMissingFramesRaises(frame_boxes, 1) # "none"
       THEN AddMissingFramesRaises(frame_boxes, 1)
       ELSE IF annotation["frames"] = <<>> THEN "IndexError"
       ELSE IF frame_boxes[1][2] = None \/ frame_boxes[Len(frame_boxes)][2] = None
            THEN "TypeError"
       ELSE "none"

\* The mapping _parse_annotation returns: its integer keys are the field frames,
\* its string keys the other fields.
_parse_annotation(index, annotation, fr, dist) ==
    LET frames == annotation["frames"]
        frame_boxes == FrameBoxes(annotation, fr)
        all_frames == _add_missing_frames(frame_boxes)
    IN [frames |-> Reduce_merge_lookups(<<>>, all_frames, 1),
        entrance_time |-> frames[1]["timeOffset"],
        exit_time |-> frames[Len(frames)]["timeOffset"],
        car_speed |-> _calculate_speed(frame_boxes, fr, dist),
        rdt |-> _relative_distance_traveled(Get(frame_boxes[1][2]),
                                            Get(frame_boxes[Len(frame_boxes)][2])),
        index |-> index]

\* _is_car_valid with strict thresholds.
_is_car_valid_strict(car, minspeed, minrdt) ==
    car["car_speed"] > minspeed * 100 /\ car["rdt"] > minrdt

\* car_speed is in hundredths of km/h, min_speed in km/h.
_is_car_valid(car, minspeed, minrdt) ==
    car["car_speed"] >= minspeed * 100 /\ car["rdt"] >= minrdt

\* The filter followed by a renumbering of the survivors from 0.
ValidCars_renumbered(lookups, minspeed, minrdt) ==
    LET kept == SelectSeq(lookups, LAMBDA car : _is_car_valid(car, minspeed, minrdt))
    IN [k \in 1..Len(kept) |-> [kept[k] EXCEPT !["index"] = k - 1]]

\* list(filter(lambda car: _is_car_valid(car, min_speed, min_rdt), lookups))
ValidCars(lookups, minspeed, minrdt) ==
    SelectSeq(lookups, LAMBDA car : _is_car_valid(car, minspeed, minrdt))

(***************************************************************************)
(* Pipeline orchestrator: _extract_cars, one action per statement          *)
(***************************************************************************)
Init ==
    /\ annotations_response \in Documents
    /\ frame_rate \in FrameRates
    /\ distance \in Distances
    /\ min_speed \in MinSpeeds
    /\ min_rdt \in MinDistances
    /\ pc = "start"
    /\ cars = <<>>
    /\ cars_frame_boxes_lookup = <<>>
    /\ all_frame_boxes = <<>>
    /\ valid_cars = <<>>
    /\ error = "none"

\* cars = list(filter(_is_car, ar))
FilterCars ==
    /\ pc = "start"
    /\ cars' = SelectSeq(annotations_response, _is_car)
    /\ pc' = "parse"
    /\ UNCHANGED <<annotations_response, frame_rate, distance, min_speed, min_rdt,
                   cars_frame_boxes_lookup, all_frame_boxes, valid_cars, error>>

\* One step of the map over enumerate(cars): _parse_annotation returns.
ParseAnnotation ==
    /\ pc = "parse"
    /\ Len(cars_frame_boxes_lookup) < Len(cars)
    /\ LET index == Len(cars_frame_boxes_lookup)
           annotation == cars[index + 1]
       IN /\ ParseAnnotationRaises(annotation, frame_rate) = "none"
          /\ all_frame_boxes' = _add_missing_frames(FrameBoxes(annotation, frame_rate))
          /\ cars_frame_boxes_lookup' =
                Append(cars_frame_boxes_lookup,
                       _parse_annotation(index, annotation, frame_rate, distance))
    /\ UNCHANGED <<annotations_response, frame_rate, distance, min_speed, min_rdt, pc,
                   cars, valid_cars, error>>

\* One step of the map over enumerate(cars): _parse_annotation raises, and the
\* exception leaves _extract_cars.
ParseAnnotationRaise ==
    /\ pc = "parse"
    /\ Len(cars_frame_boxes_lookup) < Len(cars)
    /\ LET annotation == cars[Len(cars_frame_boxes_lookup) + 1]
       IN /\ ParseAnnotationRaises(annotation, frame_rate) # "none"
          /\ error' = ParseAnnotationRaises(annotation, frame_rate)
    /\ pc' = "raised"
    /\ UNCHANGED <<annotations_response, frame_rate, distance, min_speed, min_rdt,
                   cars, cars_frame_boxes_lookup, all_frame_boxes, valid_cars>>

\* valid_cars = list(filter(_is_car_valid, cars_frame_boxes_lookup)); return valid_cars
FilterValidCars ==
    /\ pc = "parse"
    /\ Len(cars_frame_boxes_lookup) = Len(cars)
    /\ valid_cars' = ValidCars(cars_frame_boxes_lookup, min_speed, min_rdt)
    /\ pc' = "done"
    /\ UNCHANGED <<annotations_response, frame_rate, distance, min_speed, min_rdt,
                   cars, cars_frame_boxes_lookup, all_frame_boxes, error>>

Next == FilterCars \/ ParseAnnotation \/ ParseAnnotationRaise \/ FilterValidCars

Spec == Init /\ [][Next]_vars

TypeOK ==
    /\ pc \in {"start", "parse", "done", "raised"}
    /\ error \in {"none", "TypeError", "ValueError", "IndexError"}
    /\ (pc = "raised") = (error # "none")

(***************************************************************************)
(* Vocabulary of the properties                                            *)
(***************************************************************************)
\* The positions in the document of its car entities; that of the j-th (from 1).
CarPositions ==
    { p \in 1..Len(annotations_response) :
        annotations_response[p]["entity"]["description"] = "car" }

NthCarPosition(j) ==
    CHOOSE p \in CarPositions : Cardinality({ q \in CarPositions : q < p }) = j - 1

\* The cars whose trajectory is built.
Built == 1..Len(cars_frame_boxes_lookup)

\* The raw frame boxes of car j (from 1), its raw frame numbers and boxes.
Raw(j) == FrameBoxes(cars[j], frame_rate)
Parseable(j) == \A k \in 1..Len(Raw(j)) : Raw(j)[k][1] # None
RawIndex(j, k) == Get(Raw(j)[k][1])
RawBox(j, k) == Get(Raw(j)[k][2])

\* The run ended with an exception raised while car j was parsed.
RaisedOn(j) == pc = "raised" /\ Len(cars_frame_boxes_lookup) = j - 1

\* The box of the last raw sample of car j that has frame number i.
LastRawBoxAt(j, i) ==
    RawBox(j, Max({ k \in 1..Len(Raw(j)) : RawIndex(j, k) = i }))

(***************************************************************************)
(* C1: the integer keys of a trajectory built from one or more raw samples *)
(* (parseable offsets, non-decreasing frame numbers) are exactly the       *)
(* integers from the first raw frame number to the last, inclusive, also   *)
(* for a single raw sample.  Fails: a single raw sample makes no pair, and *)
(* the mapping has no integer key.                                         *)
(***************************************************************************)
C1_KeysAreFirstToLast ==
    \A j \in Built :
        (/\ Len(Raw(j)) >= 1
         /\ Parseable(j)
         /\ \A k \in 1..(Len(Raw(j)) - 1) : RawIndex(j, k) <= RawIndex(j, k + 1))
        => DOMAIN cars_frame_boxes_lookup[j]["frames"]
             = RawIndex(j, 1)..RawIndex(j, Len(Raw(j)))

(***************************************************************************)
(* C2: car_speed depends on the first and last raw samples only: rdt is    *)
(* |centroid_x(b1) - centroid_x(b0)|, and when f1 > f0 car_speed is        *)
(* round(3.6 * distance * rdt / ((f1 - f0) / frame_rate), 2); the vertical *)
(* displacement plays no part.                                             *)
(***************************************************************************)
C2_SpeedFromFirstAndLast ==
    \A j \in Built :
        LET f0 == RawIndex(j, 1)
            f1 == RawIndex(j, Len(Raw(j)))
            b0 == RawBox(j, 1)
            b1 == RawBox(j, Len(Raw(j)))
            \* twice the horizontal distance of the centroids
            dx2 == Abs((b1["left"] + b1["right"]) - (b0["left"] + b0["right"]))
        IN /\ 2 * cars_frame_boxes_lookup[j]["rdt"] = dx2
           /\ f1 > f0 =>
                cars_frame_boxes_lookup[j]["car_speed"]
                  = RoundHalfEven(360 * distance * dx2 * frame_rate,
                                  2 * CoordDen * (f1 - f0))

\* Three raw samples from "0s" to "2s", the box moving from centroid x 0.05 to
\* 0.95 (and down), distance 100: rdt 0.9 and car_speed 162.0.
C2_Witness ==
    \E j \in Built :
        /\ Len(Raw(j)) = 3
        /\ cars_frame_boxes_lookup[j]["entrance_time"] = <<"0", "s">>
        /\ cars_frame_boxes_lookup[j]["exit_time"] = <<"2", "s">>
        /\ cars[j]["frames"][1]["normalizedBoundingBox"] = BoxA
        /\ cars[j]["frames"][2]["normalizedBoundingBox"] = BoxB
        /\ cars[j]["frames"][3]["normalizedBoundingBox"] = BoxB
        /\ distance = 100
        /\ cars_frame_boxes_lookup[j]["rdt"] = 9 * Tenth
        /\ cars_frame_boxes_lookup[j]["car_speed"] = 16200

(***************************************************************************)
(* C3: the car entities get the indices 0..N-1 in document order before    *)
(* the trajectory filter; every trajectory of the output carries the index *)
(* it was assigned, so the output's indices are strictly increasing and a  *)
(* subset of 0..N-1, with a gap for each rejected car.                     *)
(***************************************************************************)
C3_IndicesAssignedBeforeFilter ==
    /\ \A j \in Built :
          cars_frame_boxes_lookup[j]
            = _parse_annotation(j - 1, annotations_response[NthCarPosition(j)],
                                frame_rate, distance)
    /\ pc = "done" =>
          /\ \A k \in 1..Len(valid_cars) :
                /\ valid_cars[k]["index"] \in 0..(Cardinality(CarPositions) - 1)
                /\ valid_cars[k] = cars_frame_boxes_lookup[valid_cars[k]["index"] + 1]
          /\ \A k \in 1..(Len(valid_cars) - 1) :
                valid_cars[k]["index"] < valid_cars[k + 1]["index"]

\* Three cars, the second one rejected: the output carries the indices 0 and 2.
C3_Witness ==
    /\ pc = "done"
    /\ Len(cars) = 3
    /\ Len(valid_cars) = 2
    /\ valid_cars[1]["index"] = 0
    /\ valid_cars[2]["index"] = 2

(***************************************************************************)
(* C4: the output holds exactly the trajectories with                      *)
(* car_speed >= min_speed and rdt >= min_distance, in document order.      *)
(***************************************************************************)
C4_FilterExact ==
    pc = "done" =>
        LET keep == { j \in Built :
                        /\ cars_frame_boxes_lookup[j]["car_speed"] >= min_speed * 100
                        /\ cars_frame_boxes_lookup[j]["rdt"] >= min_rdt }
        IN /\ Len(valid_cars) = Cardinality(keep)
           /\ \A j \in keep :
                \E k \in 1..Len(valid_cars) : valid_cars[k] = cars_frame_boxes_lookup[j]
           /\ \A k \in 1..Len(valid_cars) :
                \E j \in keep : valid_cars[k] = cars_frame_boxes_lookup[j]
           /\ \A k \in 1..(Len(valid_cars) - 1) :
                valid_cars[k]["index"] < valid_cars[k + 1]["index"]

\* A car whose rdt equals a positive min_distance is emitted; another is dropped.
C4_Witness ==
    /\ pc = "done"
    /\ min_rdt > 0
    /\ \E k \in 1..Len(valid_cars) : valid_cars[k]["rdt"] = min_rdt
    /\ Len(valid_cars) < Len(cars_frame_boxes_lookup)

(***************************************************************************)
(* C5: an entity whose description is not "car" is rejected before any     *)
(* trajectory is built: it is not counted, takes no index, its frames are  *)
(* not read (they cannot abort the run) and it is not in the output.       *)
(***************************************************************************)
\* The frames of an entity make _parse_annotation raise: there is none, or an
\* offset does not start with a digit, or the frame numbers go back.
Malformed(oa) ==
    \/ oa["frames"] = <<>>
    \/ \E k \in 1..Len(oa["frames"]) : oa["frames"][k]["timeOffset"][1] \notin Digits
    \/ \E k \in 1..(Len(oa["frames"]) - 1) :
          Get(FrameBoxes(oa, frame_rate)[k + 1][1]) < Get(FrameBoxes(oa, frame_rate)[k][1])

C5_NonCarsRejected ==
    /\ pc # "start" =>
          /\ Len(cars) = Cardinality(CarPositions)
          /\ \A j \in 1..Len(cars) : cars[j] = annotations_response[NthCarPosition(j)]
    /\ Len(cars_frame_boxes_lookup) <= Cardinality(CarPositions)
    /\ pc = "raised" =>
          Malformed(annotations_response[NthCarPosition(Len(cars_frame_boxes_lookup) + 1)])
    /\ (pc = "parse" /\ Len(cars_frame_boxes_lookup) = Cardinality(CarPositions)) =>
          \A p \in CarPositions : ~Malformed(annotations_response[p])
    /\ \A k \in 1..Len(valid_cars) :
          /\ valid_cars[k]["index"] < Cardinality(CarPositions)
          /\ valid_cars[k]["entrance_time"]
                = annotations_response[NthCarPosition(valid_cars[k]["index"] + 1)]
                    ["frames"][1]["timeOffset"]

\* A run returns a car although the document holds a non-car entity with no
\* frames and another with an unparseable offset.
C5_Witness ==
    /\ pc = "done"
    /\ Len(valid_cars) >= 1
    /\ \E p \in 1..Len(annotations_response) :
          /\ p \notin CarPositions
          /\ annotations_response[p]["frames"] = <<>>
    /\ \E p \in 1..Len(annotations_response) :
          /\ p \notin CarPositions
          /\ annotations_response[p]["frames"] # <<>>
          /\ Malformed(annotations_response[p])

(***************************************************************************)
(* C6: when the last raw frame number of a car is not after the first, the *)
(* trajectory is built without error and car_speed is 0.0.  Fails: a last  *)
(* sample before the first needs a pair of negative steps, and the pair    *)
(* raises (C8).                                                            *)
(***************************************************************************)
C6_NonPositiveElapsedGivesZero ==
    \A j \in 1..Len(cars) :
        (/\ Len(Raw(j)) >= 1
         /\ Parseable(j)
         /\ RawIndex(j, Len(Raw(j))) <= RawIndex(j, 1))
        => /\ ~RaisedOn(j)
           /\ j \in Built => cars_frame_boxes_lookup[j]["car_speed"] = 0

(***************************************************************************)
(* C7: a raw sample whose offset does not start with a number is dropped,  *)
(* and the run completes without error.  Fails: the sample stays in the    *)
(* list as (None, None) and the run raises a TypeError.                    *)
(***************************************************************************)
C7_UnparseableSampleDropped ==
    \A j \in 1..Len(cars) :
        (\E k \in 1..Len(Raw(j)) : Raw(j)[k][1] = None) => ~RaisedOn(j)

(***************************************************************************)
(* C8: a consecutive pair of raw samples with steps <= 0 contributes no    *)
(* intermediate frame and does not raise.  Fails: numpy.linspace raises a  *)
(* ValueError for a negative num.                                          *)
(***************************************************************************)
C8_NonPositiveStepsTolerated ==
    \A j \in 1..Len(cars) :
        (/\ Parseable(j)
         /\ \E k \in 1..(Len(Raw(j)) - 1) : RawIndex(j, k + 1) - RawIndex(j, k) <= 0)
        => ~RaisedOn(j)

(***************************************************************************)
(* C9: for every consecutive pair of raw samples (i0, b0), (i1, b1) with   *)
(* i0 < i1 and every k in 0..(i1 - i0), the trajectory has an entry at     *)
(* i0 + k whose components are b0 + (b1 - b0) * k / (i1 - i0).             *)
(* As stated it fails at k = 0 and k = i1 - i0 when another raw sample of  *)
(* the car has the same frame number: the mapping keeps the last one.      *)
(***************************************************************************)
\* The entry of car j at frame number i is on the line from b0 at i0 to b1 at i1.
OnLine(j, i, i0, b0, i1, b1) ==
    /\ i \in DOMAIN cars_frame_boxes_lookup[j]["frames"]
    /\ \A f \in Fields :
          cars_frame_boxes_lookup[j]["frames"][i][f] * (i1 - i0)
            = b0[f] * (i1 - i0) + (b1[f] - b0[f]) * (i - i0)

C9_LinearAtEveryFrame ==
    \A j \in Built :
        \A p \in 1..(Len(Raw(j)) - 1) :
            RawIndex(j, p) < RawIndex(j, p + 1) =>
                \A i \in RawIndex(j, p)..RawIndex(j, p + 1) :
                    OnLine(j, i, RawIndex(j, p), RawBox(j, p),
                           RawIndex(j, p + 1), RawBox(j, p + 1))

\* C9 as amended: strictly between i0 and i1 every frame number has an entry on
\* the line (i1 - i0 - 1 of them); at i0 and at i1 the entry is the box of the
\* last raw sample of the car with that frame number.
C9_LinearBetweenRawSamples ==
    \A j \in Built :
        \A p \in 1..(Len(Raw(j)) - 1) :
            LET i0 == RawIndex(j, p)
                i1 == RawIndex(j, p + 1)
                frames == cars_frame_boxes_lookup[j]["frames"]
            IN i0 < i1 =>
                /\ \A i \in (i0 + 1)..(i1 - 1) :
                      OnLine(j, i, i0, RawBox(j, p), i1, RawBox(j, p + 1))
                /\ Cardinality({ i \in DOMAIN frames : i0 < i /\ i < i1 }) = i1 - i0 - 1
                /\ {i0, i1} \subseteq DOMAIN frames
                /\ frames[i0] = LastRawBoxAt(j, i0)
                /\ frames[i1] = LastRawBoxAt(j, i1)
                /\ RawBox(j, p) = RawBox(j, p + 1) =>
                      \A i \in (i0 + 1)..(i1 - 1) : frames[i] = RawBox(j, p)

\* A pair three frames apart with different boxes, followed by a raw sample with
\* the frame number of the pair's end and another box.
C9_Witness ==
    \E j \in Built :
        /\ Len(Raw(j)) = 3
        /\ RawIndex(j, 2) - RawIndex(j, 1) = 3
        /\ RawBox(j, 1) # RawBox(j, 2)
        /\ RawIndex(j, 3) = RawIndex(j, 2)
        /\ RawBox(j, 3) # RawBox(j, 2)

(***************************************************************************)
(* C10: for three or more raw samples with strictly increasing frame       *)
(* numbers, the dense sequence of _add_missing_frames holds each frame     *)
(* number exactly once, so the fold never meets a collision.               *)
(* As stated it fails: each pair appends its start and its end, so a raw   *)
(* sample between two pairs is in the sequence twice.                      *)
(***************************************************************************)
\* The car parsed last has three or more raw samples, strictly increasing.
LastParsedIncreasing ==
    /\ Len(cars_frame_boxes_lookup) >= 1
    /\ Len(Raw(Len(cars_frame_boxes_lookup))) >= 3
    /\ \A k \in 1..(Len(Raw(Len(cars_frame_boxes_lookup))) - 1) :
          RawIndex(Len(cars_frame_boxes_lookup), k)
            < RawIndex(Len(cars_frame_boxes_lookup), k + 1)

\* The positions of the dense sequence that hold frame number i.
DensePositions(i) ==
    { a \in 1..Len(all_frame_boxes) : all_frame_boxes[a][1] = Some(i) }

C10_EachIndexOnce ==
    LastParsedIncreasing =>
        \A a, b \in 1..Len(all_frame_boxes) :
            a # b => all_frame_boxes[a][1] # all_frame_boxes[b][1]

\* C10 as amended: the dense sequence holds every frame number from the first
\* raw sample to the last; a raw sample that is neither the first nor the last
\* is in it twice, with its raw box both times, every other frame number once;
\* so the fold overwrites an entry only with an equal box.
C10_InteriorRawSamplesTwice ==
    LastParsedIncreasing =>
        LET j == Len(cars_frame_boxes_lookup)
            n == Len(Raw(j))
            interior == { RawIndex(j, k) : k \in 2..(n - 1) }
        IN /\ \A a \in 1..Len(all_frame_boxes) :
                /\ Get(all_frame_boxes[a][1]) \in RawIndex(j, 1)..RawIndex(j, n)
                /\ cars_frame_boxes_lookup[j]["frames"][Get(all_frame_boxes[a][1])]
                     = Get(all_frame_boxes[a][2])
           /\ \A i \in RawIndex(j, 1)..RawIndex(j, n) :
                Cardinality(DensePositions(i)) = IF i \in interior THEN 2 ELSE 1
           /\ \A k \in 2..(n - 1) :
                \A a \in DensePositions(RawIndex(j, k)) :
                    all_frame_boxes[a] = Raw(j)[k]

\* Three raw samples at the frame numbers 0, 3 and 4 with different boxes.
C10_Witness ==
    /\ LastParsedIncreasing
    /\ Len(all_frame_boxes) = 6
    /\ RawIndex(Len(cars_frame_boxes_lookup), 1) = 0
    /\ RawIndex(Len(cars_frame_boxes_lookup), 2) = 3
    /\ RawIndex(Len(cars_frame_boxes_lookup), 3) = 4
    /\ RawBox(Len(cars_frame_boxes_lookup), 1) # RawBox(Len(cars_frame_boxes_lookup), 2)

====
